---- MODULE Spec2Model ----
(***************************************************************************)
(* EarReflectJS: the AudioProcessor noise gate (AudioProcessor.ts) and the *)
(* EarReflect facade (EarReflect.ts).                                      *)
(*                                                                         *)
(* Numbers.  The program's `number` values that are stored in a field      *)
(* (gain, noiseLevel, noiseReductionLevel, volume) are fixed-point         *)
(* integers in units of 1/Scale; the value computed by one statement is    *)
(* evaluated exactly and rounded to nearest when it is stored.  NaN is a   *)
(* value of its own that every comparison answers FALSE for.               *)
(***************************************************************************)
EXTENDS Integers, Sequences, FiniteSets, TLC

\* ------------------------------------------------------------------ bounds
\* number of AudioProcessor objects that may exist at once
MaxProcs == 2
\* cap on the requestAnimationFrame callbacks queued for one processor
MaxPending == 2
\* analyser.frequencyBinCount of the model (fftSize / 2 in the program)
BinCount == 2
\* number of MediaStream objects that may exist at once
MaxStreams == 2
\* number of start() calls that may be in flight at once
MaxStarts == 2

\* ----------------------------------------------------------------- numbers
\* resolution of a stored number: 1.0 is Scale
Scale == 20
\* the number NaN
NaN == 0 - 10 * Scale
\* largest value of a Uint8Array element
MaxByte == 255

One == Scale
Half == Scale \div 2
Tenth == Scale \div 10

IsNaN(x) == x = NaN

\* a < b on numbers: FALSE as soon as one side is NaN
Less(a, b) == ~IsNaN(a) /\ ~IsNaN(b) /\ a < b

\* num / den rounded to the nearest integer, halves up (den > 0)
Round(num, den) == (2 * num + den) \div (2 * den)

Max(a, b) == IF a >= b THEN a ELSE b

Abs(a) == IF a >= 0 THEN a ELSE 0 - a

ProcIds == 1..MaxProcs

StreamIds == 1..MaxStreams

\* ------------------------------------------------------------------ inputs
\* values a frequency bin takes in the model: silence, two quiet levels
\* around the gate's thresholds, and full scale
BinValues == {0, 2, 5, MaxByte}

\* the Uint8Array filled by analyser.getByteFrequencyData: every bin at the
\* same value, or one bin at full scale and the others silent
Snapshots ==
    {[i \in 1..BinCount |-> v] : v \in BinValues}
        \cup {[i \in 1..BinCount |-> IF i = 1 THEN MaxByte ELSE 0]}

SilentSnapshot == [i \in 1..BinCount |-> 0]

LoudSnapshot == [i \in 1..BinCount |-> MaxByte]

\* the values of noiseLevel a second processor is given
EstimateInputs == {0, Tenth, Half, One}

\* levels inside [0,1]
ValidLevels == {0, Half, One}

\* arguments of setNoiseReductionLevel: inside [0,1], below, above, NaN
LevelInputs == ValidLevels \cup {0 - Tenth, One + Tenth, NaN}

\* number of consecutive ticks of the silence scenario
SilenceTicks == 50

VARIABLES
    procs,      \* ProcIds -> the fields of one AudioProcessor object
    rafQueue,   \* ProcIds -> number of callbacks requestAnimationFrame holds
    lastOp,     \* the operation that made the last step and how it ended
    silentRun   \* observer of the standalone processor: the number of
                \* consecutive ticks that read silence at level 0.5 since
                \* the gate gain was 1.0 (counted up to SilenceTicks)

VARIABLES
    er,         \* the fields of the EarReflect object
    streams,    \* StreamIds -> state of the tracks of a MediaStream
    calls       \* how many start() calls are suspended at each await

procVars == <<procs, rafQueue>>

facadeVars == <<er, streams, calls>>

vars == <<procs, rafQueue, lastOp, silentRun, er, streams, calls>>

\* ---------------------------------------------------------- AudioProcessor
\* a slot of procs that holds no object
NoProc ==
    [constructed |-> FALSE, enableNoiseReduction |-> FALSE,
     noiseReductionLevel |-> 0, noiseLevel |-> 0, isProcessing |-> FALSE,
     analyser |-> FALSE, noiseGate |-> FALSE, gain |-> One,
     connected |-> FALSE]

RECURSIVE SumTo(_, _)
\* sum of dataArray[1..n], the loop of lines 119-122
SumTo(dataArray, n) ==
    IF n = 0 THEN 0 ELSE dataArray[n] + SumTo(dataArray, n - 1)

Sum(dataArray) == SumTo(dataArray, BinCount)

\* BelowThreshold with the comparison turned round
BelowThreshold_Inverted(sum, level) ==
    /\ ~IsNaN(level)
    /\ sum * 100 * Scale > BinCount * MaxByte * (Scale + 5 * level)

\* normalizedAverage < threshold, with
\*   normalizedAverage = sum / bufferLength / 255
\*   threshold = 0.01 + noiseReductionLevel * 0.05
BelowThreshold(sum, level) ==
    /\ ~IsNaN(level)
    /\ sum * 100 * Scale < BinCount * MaxByte * (Scale + 5 * level)

\* TargetGain with the reduction applied in full instead of scaled by
\* noiseReductionLevel
TargetGain_FullReduction(sum, level) ==
    IF BelowThreshold(sum, level)
    THEN LET thr == BinCount * MaxByte * (Scale + 5 * level)
             avg == sum * 100 * Scale
             gain == Round(Scale * avg, thr)
         IN  Max(Tenth, gain)
    ELSE One

\* the value of `gain` after lines 130-138 (targetGain of line 142)
TargetGain(sum, level) ==
    IF BelowThreshold(sum, level)
    THEN LET thr == BinCount * MaxByte * (Scale + 5 * level)
             avg == sum * 100 * Scale
             \* gain = 1.0 - ((thr - avg) / thr) * level
             gain == Round(Scale * thr - (thr - avg) * level, thr)
         IN  Max(Tenth, gain)
    ELSE One

\* NextNoiseLevel fed the average byte, not divided by 255
NextNoiseLevel_Unnormalized(noiseLevel, sum) ==
    Round(9 * noiseLevel * BinCount + sum * Scale, 10 * BinCount)

\* noiseLevel * 0.9 + normalizedAverage * 0.1
NextNoiseLevel(noiseLevel, sum) ==
    Round(9 * noiseLevel * BinCount * MaxByte + sum * Scale,
          10 * BinCount * MaxByte)

\* SmoothedGain with the target weighted 0.7 as well
SmoothedGain_Unweighted(currentGain, targetGain) ==
    Round(7 * currentGain + 7 * targetGain, 10)

\* currentGain * 0.7 + targetGain * 0.3
SmoothedGain(currentGain, targetGain) ==
    Round(7 * currentGain + 3 * targetGain, 10)

\* whether a call of processNoiseReduction gets past its guard
TickRuns(p) == p.isProcessing /\ p.analyser /\ p.noiseGate

\* processNoiseReduction that treats a snapshot below the noise estimate
\* as silence
processNoiseReduction_AdaptiveGate(p, dataArray) ==
    IF ~TickRuns(p) THEN p
    ELSE [p EXCEPT
            !.noiseLevel = NextNoiseLevel(p.noiseLevel, Sum(dataArray)),
            !.gain = SmoothedGain(p.gain,
                        IF Sum(dataArray) * Scale
                             < p.noiseLevel * BinCount * MaxByte
                        THEN TargetGain(0, p.noiseReductionLevel)
                        ELSE TargetGain(Sum(dataArray),
                                        p.noiseReductionLevel))]

\* the fields after one call of processNoiseReduction that reads dataArray
processNoiseReduction(p, dataArray) ==
    IF ~TickRuns(p) THEN p
    ELSE [p EXCEPT
            !.noiseLevel = NextNoiseLevel(p.noiseLevel, Sum(dataArray)),
            !.gain = SmoothedGain(p.gain,
                        TargetGain(Sum(dataArray), p.noiseReductionLevel))]

\* whether startNoiseReduction gets past its guard
StartRuns(p) == p.enableNoiseReduction /\ p.analyser /\ p.noiseGate

\* the fields after startNoiseReduction, whose first tick reads dataArray
startNoiseReduction(p, dataArray) ==
    IF ~StartRuns(p) THEN p
    ELSE processNoiseReduction([p EXCEPT !.isProcessing = TRUE], dataArray)

\* the fields after the constructor: the options, then setupAudioChain,
\* which creates analyser and noiseGate only when noise reduction is
\* enabled and then starts it.  The analyser has no input yet: its first
\* snapshot is silence.
NewProcessor(enable, level) ==
    startNoiseReduction(
        [constructed |-> TRUE, enableNoiseReduction |-> enable,
         noiseReductionLevel |-> level, noiseLevel |-> 0,
         isProcessing |-> FALSE, analyser |-> enable, noiseGate |-> enable,
         gain |-> One, connected |-> TRUE],
        SilentSnapshot)

\* setNoiseReduction that leaves isProcessing alone when it disables
setNoiseReduction_NoHalt(p, enabled, dataArray) ==
    LET q == [p EXCEPT !.enableNoiseReduction = enabled]
    IN  IF enabled /\ ~p.isProcessing THEN startNoiseReduction(q, dataArray)
        ELSE IF ~enabled
             THEN [q EXCEPT !.gain = IF p.noiseGate THEN One ELSE @]
             ELSE q

\* setNoiseReduction that leaves the gate gain alone when it disables
setNoiseReduction_NoReset(p, enabled, dataArray) ==
    LET q == [p EXCEPT !.enableNoiseReduction = enabled]
    IN  IF enabled /\ ~p.isProcessing THEN startNoiseReduction(q, dataArray)
        ELSE IF ~enabled
             THEN [q EXCEPT !.isProcessing = FALSE]
             ELSE q

\* setNoiseReduction that discards the noise estimate when it disables
setNoiseReduction_ResetsEstimate(p, enabled, dataArray) ==
    LET q == [p EXCEPT !.enableNoiseReduction = enabled]
    IN  IF enabled /\ ~p.isProcessing THEN startNoiseReduction(q, dataArray)
        ELSE IF ~enabled
             THEN [q EXCEPT !.isProcessing = FALSE, !.noiseLevel = 0,
                            !.gain = IF p.noiseGate THEN One ELSE @]
             ELSE q

\* the fields after setNoiseReduction(enabled)
setNoiseReduction(p, enabled, dataArray) ==
    LET q == [p EXCEPT !.enableNoiseReduction = enabled]
    IN  IF enabled /\ ~p.isProcessing THEN startNoiseReduction(q, dataArray)
        ELSE IF ~enabled
             THEN [q EXCEPT !.isProcessing = FALSE,
                            !.gain = IF p.noiseGate THEN One ELSE @]
             ELSE q

\* whether setNoiseReduction(enabled) runs a tick (and so schedules one)
SetStarts(p, enabled) ==
    /\ enabled
    /\ ~p.isProcessing
    /\ StartRuns([p EXCEPT !.enableNoiseReduction = enabled])

\* the guard of both setNoiseReductionLevel methods
LevelRejected(level) == Less(level, 0) \/ Less(One, level)

\* setNoiseReductionLevel that applies the new level to the gain at once
setNoiseReductionLevel_Retroactive(p, level) ==
    IF LevelRejected(level) THEN p
    ELSE [p EXCEPT !.noiseReductionLevel = level,
                   !.gain = TargetGain(Sum(SilentSnapshot), level)]

\* the fields after AudioProcessor.setNoiseReductionLevel(level)
setNoiseReductionLevel(p, level) ==
    IF LevelRejected(level) THEN p
    ELSE [p EXCEPT !.noiseReductionLevel = level]

\* disconnect that detaches the nodes and leaves isProcessing alone
disconnect_NoHalt(p) == [p EXCEPT !.connected = FALSE]

\* the fields after disconnect()
disconnect(p) == [p EXCEPT !.isProcessing = FALSE, !.connected = FALSE]

\* ----------------------------------------------------------------- actions
Op(name, threw, ticked) ==
    [op |-> name, threw |-> threw, ticked |-> ticked,
     repeated |-> name \in {"setNoiseReduction(false)", "disconnect"}
                    /\ lastOp.op = name]

\* the browser runs one queued callback () => this.processNoiseReduction()
FrameCallback(i, dataArray) ==
    /\ rafQueue[i] > 0
    /\ procs' = [procs EXCEPT ![i] = processNoiseReduction(@, dataArray)]
    /\ rafQueue' = [rafQueue EXCEPT
                      ![i] = IF TickRuns(procs[i]) THEN @ ELSE @ - 1]
    /\ lastOp' = Op("frame", FALSE, TickRuns(procs[i]))

\* a caller invokes processor.setNoiseReduction(enabled)
CallSetNoiseReduction(i, enabled, dataArray) ==
    /\ procs[i].constructed
    /\ SetStarts(procs[i], enabled) => rafQueue[i] < MaxPending
    /\ procs' = [procs EXCEPT ![i] = setNoiseReduction(@, enabled, dataArray)]
    /\ rafQueue' = [rafQueue EXCEPT
                      ![i] = IF SetStarts(procs[i], enabled) THEN @ + 1 ELSE @]
    /\ lastOp' = Op(IF enabled THEN "setNoiseReduction(true)"
                               ELSE "setNoiseReduction(false)",
                    FALSE, SetStarts(procs[i], enabled))

\* a caller invokes processor.setNoiseReductionLevel(level)
CallSetNoiseReductionLevel(i, level) ==
    /\ procs[i].constructed
    /\ procs' = [procs EXCEPT ![i] = setNoiseReductionLevel(@, level)]
    /\ UNCHANGED rafQueue
    /\ lastOp' = Op("setNoiseReductionLevel", LevelRejected(level), FALSE)

\* a caller invokes processor.disconnect()
CallDisconnect(i) ==
    /\ procs[i].constructed
    /\ procs' = [procs EXCEPT ![i] = disconnect(@)]
    /\ UNCHANGED rafQueue
    /\ lastOp' = Op("disconnect", FALSE, FALSE)

\* the observer's count after a step of the standalone processor
RunAfter(ticked, dataArray) ==
    IF /\ ticked
       /\ dataArray = SilentSnapshot
       /\ procs[1].noiseReductionLevel = Half
       /\ (procs[1].gain = One \/ silentRun > 0)
    THEN (IF silentRun < SilenceTicks THEN silentRun + 1 ELSE silentRun)
    ELSE 0

\* -------------------------------------------------------------- EarReflect
\* an option that was not given
Unset == 0 - 20 * Scale

\* the default of options.volume
DefaultVolume == (7 * Scale) \div 10

\* the object of a model that has no EarReflect
NoFacade ==
    [constructed |-> FALSE, audioContext |-> FALSE, mediaStream |-> 0,
     sourceNode |-> FALSE, gainNode |-> FALSE, gainValue |-> 0,
     destinationNode |-> FALSE, audioProcessor |-> 0, audioElement |-> FALSE,
     options |-> [volume |-> 0, enableNoiseReduction |-> FALSE,
                  noiseReductionLevel |-> 0,
                  audioProcessorOptions |->
                      [enableNoiseReduction |-> "unset",
                       noiseReductionLevel |-> Unset]],
     status |-> [isRunning |-> FALSE, isInitialized |-> FALSE, volume |-> 0,
                 noiseReductionEnabled |-> FALSE]]

\* the fields after the constructor (latency, sampleRate and channels are
\* passed through to the platform and are left out)
NewEarReflect(volume, enable, level, apo) ==
    [NoFacade EXCEPT
        !.constructed = TRUE,
        !.options = [volume |-> volume, enableNoiseReduction |-> enable,
                     noiseReductionLevel |-> level,
                     audioProcessorOptions |-> apo],
        !.status = [isRunning |-> FALSE, isInitialized |-> FALSE,
                    volume |-> volume, noiseReductionEnabled |-> enable]]

\* the options initializeAudioContext hands to new AudioProcessor: the
\* spread of audioProcessorOptions comes last and wins
ProcessorEnable(o) ==
    IF o.audioProcessorOptions.enableNoiseReduction = "unset"
    THEN o.enableNoiseReduction
    ELSE o.audioProcessorOptions.enableNoiseReduction = "true"

ProcessorLevel(o) ==
    IF o.audioProcessorOptions.noiseReductionLevel = Unset
    THEN o.noiseReductionLevel
    ELSE o.audioProcessorOptions.noiseReductionLevel

\* the guard of setVolume
VolumeRejected(volume) == Less(volume, 0) \/ Less(One, volume)

\* AudioParam.value is a float attribute: assigning a non-finite number
\* throws a TypeError
ParamRejects(value) == IsNaN(value)

\* processors nothing refers to any more and that have stopped for good are
\* reclaimed
Collect(ps, rq, ref) ==
    [i \in ProcIds |->
        IF i # ref /\ ~ps[i].isProcessing /\ rq[i] = 0 THEN NoProc ELSE ps[i]]

\* streams nothing refers to any more and whose tracks are stopped are
\* reclaimed
CollectStreams(ss, ref) ==
    [t \in StreamIds |->
        IF t # ref /\ ss[t] = "stopped" THEN "none" ELSE ss[t]]

FreeProcs == {i \in ProcIds : ~procs[i].constructed}

FreeStreams == {t \in StreamIds : streams[t] = "none"}

MinOf(S) == CHOOSE x \in S : \A y \in S : x <= y

\* no start() call is suspended
NoCalls == [awaitMedia |-> 0, awaitResume |-> 0, awaitClosed |-> 0]

\* the number of start() calls that are suspended
InFlight == calls.awaitMedia + calls.awaitResume + calls.awaitClosed

\* the fields after stop() has run past its guard
StoppedFields(e) ==
    [e EXCEPT !.audioElement = FALSE, !.sourceNode = FALSE,
              !.gainNode = FALSE, !.gainValue = 0,
              !.destinationNode = FALSE, !.mediaStream = 0,
              !.audioContext = FALSE, !.status.isRunning = FALSE]

\* the effect of stop() on everything but lastOp; `keep` is the processor
\* the object refers to when the caller returns
StopEffect(keep) ==
    IF ~er.status.isRunning
    THEN /\ er' = [er EXCEPT !.audioProcessor = keep]
         /\ procs' = Collect(procs, rafQueue, keep)
         /\ UNCHANGED <<rafQueue, streams, calls>>
    ELSE /\ er' = [StoppedFields(er) EXCEPT !.audioProcessor = keep]
         /\ procs' = Collect(
                [i \in ProcIds |->
                    IF i = er.audioProcessor THEN disconnect(procs[i])
                    ELSE procs[i]],
                rafQueue, keep)
         /\ streams' = CollectStreams(
                [t \in StreamIds |->
                    IF t = er.mediaStream THEN "stopped" ELSE streams[t]], 0)
         \* closing the context rejects a resume() that is still pending
         /\ calls' = [calls EXCEPT
                        !.awaitResume = 0,
                        !.awaitClosed = @ + calls.awaitResume]
         /\ UNCHANGED rafQueue

\* start() without the isRunning guard
ER_start_NoGuard(limit) ==
    /\ er.constructed
    /\ InFlight < limit
    /\ IF er.audioContext
       THEN /\ UNCHANGED <<procVars, er>>
            /\ lastOp' = Op("start:getUserMedia", FALSE, FALSE)
       ELSE /\ FreeProcs # {}
            /\ LET i == MinOf(FreeProcs)
                   p == NewProcessor(ProcessorEnable(er.options),
                                     ProcessorLevel(er.options))
                   rq == [rafQueue EXCEPT
                            ![i] = IF p.isProcessing THEN 1 ELSE 0]
               IN  /\ er' = [er EXCEPT !.audioContext = TRUE,
                                       !.audioProcessor = i,
                                       !.status.isInitialized = TRUE]
                   /\ procs' = Collect([procs EXCEPT ![i] = p], rq, i)
                   /\ rafQueue' = rq
                   /\ lastOp' = Op("start:getUserMedia", FALSE, p.isProcessing)
    /\ calls' = [calls EXCEPT !.awaitMedia = @ + 1]
    /\ UNCHANGED streams

\* start() up to its first suspension: the isRunning guard, then
\* initializeAudioContext, then the call of getUserMedia; at most `limit`
\* calls are in flight
ER_start(limit) ==
    /\ er.constructed
    /\ IF er.status.isRunning
       THEN /\ UNCHANGED <<procVars, facadeVars>>
            /\ lastOp' = Op("start:running", FALSE, FALSE)
       ELSE IF er.audioContext
       THEN /\ InFlight < limit
            /\ calls' = [calls EXCEPT !.awaitMedia = @ + 1]
            /\ UNCHANGED <<procVars, er, streams>>
            /\ lastOp' = Op("start:getUserMedia", FALSE, FALSE)
       ELSE /\ InFlight < limit
            /\ FreeProcs # {}
            /\ LET i == MinOf(FreeProcs)
                   p == NewProcessor(ProcessorEnable(er.options),
                                     ProcessorLevel(er.options))
                   rq == [rafQueue EXCEPT
                            ![i] = IF p.isProcessing THEN 1 ELSE 0]
               IN  /\ er' = [er EXCEPT !.audioContext = TRUE,
                                       !.audioProcessor = i,
                                       !.status.isInitialized = TRUE]
                   /\ procs' = Collect([procs EXCEPT ![i] = p], rq, i)
                   /\ rafQueue' = rq
                   /\ lastOp' = Op("start:getUserMedia", FALSE, p.isProcessing)
            /\ calls' = [calls EXCEPT !.awaitMedia = @ + 1]
            /\ UNCHANGED streams

\* getUserMedia rejects: start() throws from its catch block
ER_startDenied ==
    /\ calls.awaitMedia > 0
    /\ calls' = [calls EXCEPT !.awaitMedia = @ - 1]
    /\ UNCHANGED <<procVars, er, streams>>
    /\ lastOp' = Op("start", TRUE, FALSE)

\* getUserMedia resolves with a new stream: lines 125-163 up to the await
\* of resume(), which is reached when the context is suspended
ER_startGranted(suspended) ==
    /\ calls.awaitMedia > 0
    /\ FreeStreams # {}
    /\ LET t == MinOf(FreeStreams)
           ss == [streams EXCEPT ![t] = "live"]
           done == [calls EXCEPT !.awaitMedia = @ - 1]
           e1 == [er EXCEPT !.mediaStream = t]
           e2 == [e1 EXCEPT !.sourceNode = TRUE, !.gainNode = TRUE]
           e3 == [e2 EXCEPT !.gainValue = er.options.volume,
                            !.destinationNode = TRUE,
                            !.audioElement = TRUE]
       IN  /\ streams' = CollectStreams(ss, t)
           /\ IF ~er.audioContext
              THEN /\ er' = e1
                   /\ calls' = done
                   /\ lastOp' = Op("start", TRUE, FALSE)
              ELSE IF ParamRejects(er.options.volume)
              THEN /\ er' = e2
                   /\ calls' = done
                   /\ lastOp' = Op("start", TRUE, FALSE)
              ELSE IF suspended
              THEN /\ er' = e3
                   /\ calls' = [done EXCEPT !.awaitResume = @ + 1]
                   /\ lastOp' = Op("start:resume", FALSE, FALSE)
              ELSE /\ er' = [e3 EXCEPT !.status.isRunning = TRUE]
                   /\ calls' = done
                   /\ lastOp' = Op("start", FALSE, FALSE)
    /\ UNCHANGED procVars

\* audioContext.resume() resolves: line 163
ER_startResumed ==
    /\ calls.awaitResume > 0
    /\ er' = [er EXCEPT !.status.isRunning = TRUE]
    /\ calls' = [calls EXCEPT !.awaitResume = @ - 1]
    /\ UNCHANGED <<procVars, streams>>
    /\ lastOp' = Op("start", FALSE, FALSE)

\* audioContext.resume() rejects because the context was closed
ER_startResumeFailed ==
    /\ calls.awaitClosed > 0
    /\ calls' = [calls EXCEPT !.awaitClosed = @ - 1]
    /\ UNCHANGED <<procVars, er, streams>>
    /\ lastOp' = Op("start", TRUE, FALSE)

ER_stop ==
    /\ er.constructed
    /\ StopEffect(er.audioProcessor)
    /\ lastOp' = Op("stop", FALSE, FALSE)

ER_destroy ==
    /\ er.constructed
    /\ StopEffect(0)
    /\ lastOp' = Op("destroy", FALSE, FALSE)

ER_setVolume(volume) ==
    /\ er.constructed
    /\ IF VolumeRejected(volume)
       THEN /\ UNCHANGED er
            /\ lastOp' = Op("setVolume", TRUE, FALSE)
       ELSE /\ er' = [er EXCEPT
                        !.options.volume = volume,
                        !.status.volume = volume,
                        !.gainValue = IF er.gainNode /\ ~ParamRejects(volume)
                                      THEN volume ELSE @]
            /\ lastOp' = Op("setVolume",
                            er.gainNode /\ ParamRejects(volume), FALSE)
    /\ UNCHANGED <<procVars, streams, calls>>

ER_setNoiseReduction(enabled, dataArray) ==
    /\ er.constructed
    /\ er' = [er EXCEPT !.options.enableNoiseReduction = enabled,
                        !.status.noiseReductionEnabled = enabled]
    /\ IF er.audioProcessor # 0
       THEN LET i == er.audioProcessor
            IN  /\ SetStarts(procs[i], enabled) => rafQueue[i] < MaxPending
                /\ procs' = [procs EXCEPT
                               ![i] = setNoiseReduction(@, enabled, dataArray)]
                /\ rafQueue' = [rafQueue EXCEPT
                                  ![i] = IF SetStarts(procs[i], enabled)
                                         THEN @ + 1 ELSE @]
                /\ lastOp' = Op(IF enabled THEN "setNoiseReduction(true)"
                                           ELSE "setNoiseReduction(false)",
                                FALSE, SetStarts(procs[i], enabled))
       ELSE /\ UNCHANGED procVars
            /\ lastOp' = Op(IF enabled THEN "setNoiseReduction(true)"
                                       ELSE "setNoiseReduction(false)",
                            FALSE, FALSE)
    /\ UNCHANGED <<streams, calls>>

ER_setNoiseReductionLevel(level) ==
    /\ er.constructed
    /\ IF LevelRejected(level)
       THEN UNCHANGED <<er, procs>>
       ELSE /\ er' = [er EXCEPT !.options.noiseReductionLevel = level]
            /\ procs' = [i \in ProcIds |->
                           IF i = er.audioProcessor
                           THEN setNoiseReductionLevel(procs[i], level)
                           ELSE procs[i]]
    /\ UNCHANGED <<rafQueue, streams, calls>>
    /\ lastOp' = Op("setNoiseReductionLevel", LevelRejected(level), FALSE)

\* a queued callback of any processor the object created runs
ER_frame(i, dataArray) ==
    /\ rafQueue[i] > 0
    /\ LET p == processNoiseReduction(procs[i], dataArray)
           rq == [rafQueue EXCEPT
                    ![i] = IF TickRuns(procs[i]) THEN @ ELSE @ - 1]
       IN  /\ procs' = Collect([procs EXCEPT ![i] = p], rq, er.audioProcessor)
           /\ rafQueue' = rq
    /\ UNCHANGED facadeVars
    /\ lastOp' = Op("frame", FALSE, TickRuns(procs[i]))

\* ------------------------------------------------ EarReflect (SpecFacade)
\* snapshots the analysers read under the facade
FacadeSnapshots == {SilentSnapshot}

\* The lifecycle of one EarReflect with overlapping start() calls.  The
\* object is constructed with noiseReductionLevel 0, at which the gate
\* leaves the gain at 1.0: what is explored here is the lifecycle.
InitFacade ==
    /\ procs = [i \in ProcIds |-> NoProc]
    /\ rafQueue = [i \in ProcIds |-> 0]
    /\ silentRun = 0
    /\ lastOp = [op |-> "new", threw |-> FALSE, ticked |-> FALSE,
                 repeated |-> FALSE]
    /\ \E enable \in BOOLEAN :
          er = NewEarReflect(DefaultVolume, enable, 0,
                  [enableNoiseReduction |-> "unset",
                   noiseReductionLevel |-> Unset])
    /\ streams = [t \in StreamIds |-> "none"]
    /\ calls = NoCalls

NextFacade ==
    \/ ER_start(MaxStarts) /\ UNCHANGED silentRun
    \/ ER_startDenied /\ UNCHANGED silentRun
    \/ \E suspended \in BOOLEAN :
          ER_startGranted(suspended) /\ UNCHANGED silentRun
    \/ ER_startResumed /\ UNCHANGED silentRun
    \/ ER_startResumeFailed /\ UNCHANGED silentRun
    \/ ER_stop /\ UNCHANGED silentRun
    \/ ER_destroy /\ UNCHANGED silentRun
    \/ \E enabled \in BOOLEAN, dataArray \in FacadeSnapshots :
          ER_setNoiseReduction(enabled, dataArray) /\ UNCHANGED silentRun
    \/ \E i \in ProcIds, dataArray \in FacadeSnapshots :
          ER_frame(i, dataArray) /\ UNCHANGED silentRun

SpecFacade == InitFacade /\ [][NextFacade]_vars

\* ------------------------------------------------ EarReflect (SpecVolume)
\* volumes inside [0,1]
ValidVolumes == {0, DefaultVolume, One}

\* arguments of setVolume: inside [0,1], below, above, NaN
VolumeInputs == ValidVolumes \cup {0 - Tenth, One + Tenth, NaN}

\* The volume of one EarReflect whose start() calls do not overlap.
InitVolume ==
    /\ procs = [i \in ProcIds |-> NoProc]
    /\ rafQueue = [i \in ProcIds |-> 0]
    /\ silentRun = 0
    /\ lastOp = [op |-> "new", threw |-> FALSE, ticked |-> FALSE,
                 repeated |-> FALSE]
    /\ \E volume \in ValidVolumes, enable \in BOOLEAN :
          er = NewEarReflect(volume, enable, 0,
                  [enableNoiseReduction |-> "unset",
                   noiseReductionLevel |-> Unset])
    /\ streams = [t \in StreamIds |-> "none"]
    /\ calls = NoCalls

NextVolume ==
    \/ ER_start(1) /\ UNCHANGED silentRun
    \/ ER_startDenied /\ UNCHANGED silentRun
    \/ \E suspended \in BOOLEAN :
          ER_startGranted(suspended) /\ UNCHANGED silentRun
    \/ ER_startResumed /\ UNCHANGED silentRun
    \/ ER_stop /\ UNCHANGED silentRun
    \/ ER_destroy /\ UNCHANGED silentRun
    \/ \E volume \in VolumeInputs : ER_setVolume(volume) /\ UNCHANGED silentRun
    \/ \E i \in ProcIds, dataArray \in FacadeSnapshots :
          ER_frame(i, dataArray) /\ UNCHANGED silentRun

SpecVolume == InitVolume /\ [][NextVolume]_vars

\* the audioProcessorOptions a caller hands to the constructor: none, or
\* one of the two noise reduction fields
ProcessorOptionInputs ==
    {[enableNoiseReduction |-> "unset", noiseReductionLevel |-> Unset],
     [enableNoiseReduction |-> "false", noiseReductionLevel |-> Unset],
     [enableNoiseReduction |-> "unset", noiseReductionLevel |-> Tenth]}

\* the levels a caller hands to EarReflect.setNoiseReductionLevel
ConfigLevels == {0, Tenth, One + Tenth}

\* The noise reduction configuration of one EarReflect whose start() calls
\* do not overlap and whose context is never suspended.
InitConfig ==
    /\ procs = [i \in ProcIds |-> NoProc]
    /\ rafQueue = [i \in ProcIds |-> 0]
    /\ silentRun = 0
    /\ lastOp = [op |-> "new", threw |-> FALSE, ticked |-> FALSE,
                 repeated |-> FALSE]
    /\ \E enable \in BOOLEAN, apo \in ProcessorOptionInputs :
          er = NewEarReflect(DefaultVolume, enable, 0, apo)
    /\ streams = [t \in StreamIds |-> "none"]
    /\ calls = NoCalls

NextConfig ==
    \/ ER_start(1) /\ UNCHANGED silentRun
    \/ ER_startDenied /\ UNCHANGED silentRun
    \/ ER_startGranted(FALSE) /\ UNCHANGED silentRun
    \/ ER_stop /\ UNCHANGED silentRun
    \/ \E enabled \in BOOLEAN, dataArray \in FacadeSnapshots :
          ER_setNoiseReduction(enabled, dataArray) /\ UNCHANGED silentRun
    \/ \E level \in ConfigLevels :
          ER_setNoiseReductionLevel(level) /\ UNCHANGED silentRun
    \/ \E i \in ProcIds, dataArray \in FacadeSnapshots :
          ER_frame(i, dataArray) /\ UNCHANGED silentRun

SpecConfig == InitConfig /\ [][NextConfig]_vars

\* --------------------------------------- a standalone AudioProcessor (Spec)
\* processor 1, constructed with any options
Init ==
    /\ \E enable \in BOOLEAN, level \in ValidLevels :
          /\ procs = [i \in ProcIds |->
                        IF i = 1 THEN NewProcessor(enable, level) ELSE NoProc]
          /\ rafQueue = [i \in ProcIds |->
                        IF i = 1 /\ enable THEN 1 ELSE 0]
          /\ silentRun = IF enable /\ level = Half THEN 1 ELSE 0
    /\ lastOp = [op |-> "new", threw |-> FALSE, ticked |-> FALSE,
                 repeated |-> FALSE]
    /\ er = NoFacade
    /\ streams = [t \in StreamIds |-> "none"]
    /\ calls = NoCalls

Frame ==
    \E dataArray \in Snapshots :
        /\ FrameCallback(1, dataArray)
        /\ silentRun' = RunAfter(TickRuns(procs[1]), dataArray)
        /\ UNCHANGED facadeVars

Toggle ==
    \E enabled \in BOOLEAN, dataArray \in Snapshots :
        /\ CallSetNoiseReduction(1, enabled, dataArray)
        /\ silentRun' = RunAfter(SetStarts(procs[1], enabled), dataArray)
        /\ UNCHANGED facadeVars

SetLevel ==
    \E level \in LevelInputs :
        /\ CallSetNoiseReductionLevel(1, level)
        /\ silentRun' = 0
        /\ UNCHANGED facadeVars

Disconnect ==
    /\ CallDisconnect(1)
    /\ silentRun' = 0
    /\ UNCHANGED facadeVars

Next == Frame \/ Toggle \/ SetLevel \/ Disconnect

Spec == Init /\ [][Next]_vars

TypeOK ==
    /\ \A i \in ProcIds : procs[i].gain \in 0..One /\ procs[i].noiseLevel \in 0..One
    /\ \A i \in ProcIds : rafQueue[i] \in 0..MaxPending
    /\ silentRun \in 0..SilenceTicks
\* ------------------------------------------------------------------ claims
\* C1: in every reachable state the gain of an existing noise gate is
\* greater than 0 and at most 1.0.
C1_GateGainInRange ==
    \A i \in ProcIds :
        procs[i].constructed /\ procs[i].noiseGate
            => 0 < procs[i].gain /\ procs[i].gain <= One

\* a tick has pulled the gain below 0.5
C1_Witness ==
    /\ lastOp.op = "frame"
    /\ lastOp.ticked
    /\ procs[1].gain < Half

\* C2 (as claimed): setNoiseReductionLevel(level) succeeds and stores level
\* for every level in [0,1]; for every other level it throws and leaves the
\* processor as it was.
C2_Claim ==
    [][\A level \in LevelInputs :
          CallSetNoiseReductionLevel(1, level) =>
              IF level \in 0..One
              THEN ~lastOp'.threw /\ procs'[1].noiseReductionLevel = level
              ELSE lastOp'.threw /\ procs' = procs]_vars

\* C3: setNoiseReduction(false) returns with the gate gain at 1.0 and the
\* loop halted, and while noise reduction stays disabled no step runs a tick
\* body or changes the gate gain or the noise-level estimate.
C3_DisableHalts ==
    /\ [](lastOp.op = "setNoiseReduction(false)" =>
            /\ ~procs[1].isProcessing
            /\ procs[1].noiseGate => procs[1].gain = One)
    /\ [][~procs[1].enableNoiseReduction /\ ~procs'[1].enableNoiseReduction
            => /\ ~lastOp'.ticked
               /\ procs'[1].gain = procs[1].gain
               /\ procs'[1].noiseLevel = procs[1].noiseLevel]_vars

\* a callback scheduled before the disabling fired and did nothing
C3_Witness ==
    /\ lastOp.op = "frame"
    /\ ~lastOp.ticked
    /\ ~procs[1].enableNoiseReduction
    /\ procs[1].noiseGate
    /\ procs[1].connected
    /\ procs[1].noiseLevel > 0

\* C4 (as claimed): when setNoiseReduction(true) returns, the loop is
\* running: isProcessing is true and a tick is scheduled.
C4_Claim ==
    lastOp.op = "setNoiseReduction(true)" =>
        procs[1].isProcessing /\ rafQueue[1] >= 1

\* C5 (as claimed): at most one tick callback of a processor is pending.
C5_Claim == \A i \in ProcIds : rafQueue[i] <= 1

\* C7: disconnect() returns without an error and with isProcessing false, a
\* callback that fires on the halted, disconnected processor changes none of
\* its fields, and a second disconnect() in a row changes nothing.
C7_DisconnectHalts ==
    /\ [](lastOp.op = "disconnect" =>
            ~lastOp.threw /\ ~procs[1].isProcessing /\ ~procs[1].connected)
    /\ [][lastOp.op = "disconnect" /\ lastOp'.op = "frame"
            => ~lastOp'.ticked /\ procs' = procs]_vars
    /\ [][lastOp.op = "disconnect" /\ lastOp'.op = "disconnect"
            => procs' = procs /\ rafQueue' = rafQueue /\ ~lastOp'.threw]_vars

\* disconnect() was called twice in a row with a callback still queued
C7_Witness ==
    /\ lastOp.op = "disconnect"
    /\ lastOp.repeated
    /\ rafQueue[1] > 0
    /\ procs[1].noiseGate

\* C8: a second setNoiseReduction(false) in a row changes nothing, and the
\* state it leaves has gate gain 1.0, isProcessing false and
\* enableNoiseReduction false.
C8_StopIdempotent ==
    [][lastOp.op = "setNoiseReduction(false)"
         /\ lastOp'.op = "setNoiseReduction(false)"
         => /\ procs' = procs
            /\ rafQueue' = rafQueue
            /\ ~procs'[1].isProcessing
            /\ ~procs'[1].enableNoiseReduction
            /\ procs'[1].noiseGate => procs'[1].gain = One]_vars

\* setNoiseReduction(false) was called twice in a row on a gate that had run
C8_Witness ==
    /\ lastOp.op = "setNoiseReduction(false)"
    /\ lastOp.repeated
    /\ procs[1].noiseGate
    /\ procs[1].noiseLevel > 0

\* C10: in a run of ticks that read silence at level 0.5, begun at gate gain
\* 1.0, the target gain is 0.5, the gate gain never rises, stays at or above
\* 0.5 (so above 0.1), and its distance to 0.5 is 0.7 times the previous
\* distance, up to the rounding of the stored value.
C10_SilenceScenario ==
    /\ [](silentRun > 0 =>
            /\ TargetGain(Sum(SilentSnapshot), Half) = Half
            /\ procs[1].gain >= Half
            /\ procs[1].gain >= Tenth)
    /\ [][silentRun' > 0 =>
            /\ procs'[1].gain <= procs[1].gain
            /\ Abs(10 * (procs'[1].gain - Half)
                     - 7 * (procs[1].gain - Half)) <= 5]_vars

\* the 50th consecutive silent tick has run
C10_Witness ==
    /\ silentRun = SilenceTicks
    /\ procs[1].gain < One
    /\ procs[1].noiseReductionLevel = Half
\* C6 (as claimed): when destroy() has returned and no start() call is in
\* flight, the object holds no audio context, no media stream with live
\* tracks and no audio processor, and no processor it created is still
\* processing.
C6_Claim ==
    lastOp.op = "destroy" /\ InFlight = 0 =>
        /\ ~er.audioContext
        /\ er.mediaStream = 0
        /\ \A t \in StreamIds : streams[t] # "live"
        /\ er.audioProcessor = 0
        /\ \A i \in ProcIds : ~procs[i].isProcessing

\* C9 (as claimed): setVolume(v) succeeds for every v in [0,1], after which
\* getVolume(), status.volume and a live gain node hold v; for every other v
\* it throws and leaves options.volume, status.volume and the gain node's
\* value as they were; a gain node created by a later start() holds the
\* volume last set.
C9_Claim ==
    /\ [](er.gainNode => er.gainValue = er.options.volume)
    /\ [][\A volume \in VolumeInputs :
            ER_setVolume(volume) =>
                IF volume \in 0..One
                THEN /\ ~lastOp'.threw
                     /\ er'.status.volume = volume
                     /\ er'.options.volume = volume
                     /\ er.gainNode => er'.gainValue = volume
                ELSE /\ lastOp'.threw
                     /\ er'.options.volume = er.options.volume
                     /\ er'.status.volume = er.status.volume
                     /\ er'.gainValue = er.gainValue]_vars
\* C11: at any level in [0,1] a tick that reads every bin at 255 has target
\* gain 1.0: the gate gain does not fall, stays 1.0 when it is 1.0, rises
\* while it is more than one rounding unit below 1.0, and its distance to
\* 1.0 is 0.7 times the previous distance, up to the rounding of the stored
\* value.
C11_LoudScenario ==
    /\ [](\A level \in ValidLevels :
            TargetGain(Sum(LoudSnapshot), level) = One)
    /\ [][/\ procs[1].noiseReductionLevel \in 0..One
          /\ \/ FrameCallback(1, LoudSnapshot) /\ TickRuns(procs[1])
             \/ CallSetNoiseReduction(1, TRUE, LoudSnapshot)
                   /\ SetStarts(procs[1], TRUE)
          => /\ procs'[1].gain >= procs[1].gain
             /\ procs'[1].gain <= One
             /\ procs[1].gain = One => procs'[1].gain = One
             /\ procs[1].gain < One - 1 => procs'[1].gain > procs[1].gain
             /\ Abs(10 * (One - procs'[1].gain)
                      - 7 * (One - procs[1].gain)) <= 5]_vars

\* the last tick read a loud snapshot (the estimate is at the value only a
\* loud tick leaves) at level 1.0 and the gain has risen to one rounding unit
\* below 1.0
C11_Witness ==
    /\ lastOp.op = "frame"
    /\ lastOp.ticked
    /\ procs[1].noiseReductionLevel = One
    /\ procs[1].noiseLevel >= NextNoiseLevel(One, Sum(LoudSnapshot)) - 4
    /\ procs[1].gain = One - 1
\* C12: a setNoiseReductionLevel(level) that does not throw stores the level
\* and leaves the gate gain, the noise estimate, the running state and the
\* queued callbacks as they were at the call; the first tick after it
\* smooths the gain towards the target computed from the stored new level.
C12_LevelOnNextTick ==
    /\ [][\A level \in LevelInputs :
            CallSetNoiseReductionLevel(1, level) /\ ~LevelRejected(level)
            => /\ procs'[1].noiseReductionLevel = level
               /\ procs'[1].gain = procs[1].gain
               /\ procs'[1].noiseLevel = procs[1].noiseLevel
               /\ procs'[1].isProcessing = procs[1].isProcessing
               /\ procs'[1].enableNoiseReduction
                     = procs[1].enableNoiseReduction
               /\ rafQueue' = rafQueue]_vars
    /\ [][/\ lastOp.op = "setNoiseReductionLevel"
          /\ ~lastOp.threw
          /\ lastOp'.op = "frame"
          /\ lastOp'.ticked
          => \E dataArray \in Snapshots :
               procs'[1].gain
                 = SmoothedGain(procs[1].gain,
                                TargetGain(Sum(dataArray),
                                           procs[1].noiseReductionLevel))]_vars

\* the level was raised to 1.0 while the loop runs and the gain rests at
\* the floor silence reaches at level 0.5
C12_Witness ==
    /\ lastOp.op = "setNoiseReductionLevel"
    /\ ~lastOp.threw
    /\ procs[1].isProcessing
    /\ procs[1].noiseReductionLevel = One
    /\ procs[1].gain = Half + 1
\* C14 as stated: when setNoiseReduction(true) follows setNoiseReduction(false)
\* and starts a new session, the first tick of that session updates an
\* estimate of 0.
C14_Claim ==
    [][\A dataArray \in Snapshots :
         /\ lastOp.op = "setNoiseReduction(false)"
         /\ CallSetNoiseReduction(1, TRUE, dataArray)
         /\ SetStarts(procs[1], TRUE)
         => procs'[1].noiseLevel = NextNoiseLevel(0, Sum(dataArray))]_vars

\* C14 amended: the estimate carries over a disable/enable cycle on the same
\* processor: setNoiseReduction(false) leaves it as it is, and the first tick
\* of the session started by setNoiseReduction(true) updates the estimate the
\* previous session reached.
C14_EstimateCarriesOver ==
    /\ [][\A dataArray \in Snapshots :
            CallSetNoiseReduction(1, FALSE, dataArray)
            => procs'[1].noiseLevel = procs[1].noiseLevel]_vars
    /\ [][\A dataArray \in Snapshots :
            /\ lastOp.op = "setNoiseReduction(false)"
            /\ CallSetNoiseReduction(1, TRUE, dataArray)
            /\ SetStarts(procs[1], TRUE)
            => procs'[1].noiseLevel
                 = NextNoiseLevel(procs[1].noiseLevel, Sum(dataArray))]_vars

\* a session just started by setNoiseReduction(true) holds an estimate no
\* single tick from 0 can produce
C14_Witness ==
    /\ lastOp.op = "setNoiseReduction(true)"
    /\ lastOp.ticked
    /\ procs[1].isProcessing
    /\ procs[1].noiseLevel > NextNoiseLevel(0, Sum(LoudSnapshot))
\* C15: the noise estimate is within [0,1] in every reachable state and is 0
\* at construction; a tick replaces it by 0.9 * estimate + 0.1 *
\* normalizedAverage (to the rounding of the stored value), and a step that
\* runs no tick leaves it as it is.
C15_EstimateInRange ==
    /\ [](\A i \in ProcIds :
            procs[i].noiseLevel >= 0 /\ procs[i].noiseLevel <= One)
    /\ [](lastOp.op = "new" => procs[1].noiseLevel = 0)
    /\ [][lastOp'.ticked
          => \E dataArray \in Snapshots :
               Abs(10 * BinCount * MaxByte * procs'[1].noiseLevel
                     - (9 * BinCount * MaxByte * procs[1].noiseLevel
                          + Sum(dataArray) * Scale))
                 <= 5 * BinCount * MaxByte]_vars
    /\ [][~lastOp'.ticked
          => procs'[1].noiseLevel = procs[1].noiseLevel]_vars

\* ticks have raised the estimate from 0 to above 0.6
C15_Witness ==
    /\ lastOp.op = "frame"
    /\ lastOp.ticked
    /\ procs[1].noiseLevel > Half + Tenth
\* C16: a call of start() on an instance that is running acquires no stream,
\* creates no node, context or processor, and leaves every field, every
\* stream and every suspended call as it was.
C16_StartWhileRunning ==
    [][/\ er.status.isRunning
       /\ lastOp'.op \in {"start:running", "start:getUserMedia"}
       => UNCHANGED <<procs, rafQueue, er, streams, calls>>]_vars

\* start() has just returned at its guard on a running instance
C16_Witness ==
    /\ lastOp.op = "start:running"
    /\ er.status.isRunning
    /\ er.mediaStream # 0
    /\ streams[er.mediaStream] = "live"
\* C17 as stated: every stream getUserMedia has handed out is either the one
\* the object refers to or has all its tracks stopped (so that once stop()
\* has run and no start() is in flight, no acquired stream is live).
C17_Claim ==
    \A t \in StreamIds : streams[t] = "live" => er.mediaStream = t

\* C18 as stated, for a stop() that is the last call made while one start()
\* is suspended: when that start() settles, the instance is not running and
\* holds no live stream, no nodes and no audio element.
C18_Claim ==
    [][/\ lastOp.op = "stop"
       /\ InFlight = 1
       /\ InFlight' = 0
       /\ lastOp'.op = "start"
       => /\ ~er'.status.isRunning
          /\ er'.mediaStream = 0
          /\ \A t \in StreamIds : streams'[t] # "live"
          /\ ~er'.sourceNode
          /\ ~er'.gainNode
          /\ ~er'.destinationNode
          /\ ~er'.audioElement]_vars

\* C19 as stated: between a stop() that released the context and the next
\* start(), the processor the object retains is not processing.
C19_Claim ==
    (/\ er.constructed
     /\ ~er.status.isRunning
     /\ ~er.audioContext
     /\ er.audioProcessor # 0)
    => ~procs[er.audioProcessor].isProcessing
\* C20 as stated: whenever the object holds a processor, the processor's
\* enableNoiseReduction equals status.noiseReductionEnabled and its
\* noiseReductionLevel equals options.noiseReductionLevel.
C20_Claim ==
    er.audioProcessor # 0
    => /\ procs[er.audioProcessor].enableNoiseReduction
            = er.status.noiseReductionEnabled
       /\ procs[er.audioProcessor].noiseReductionLevel
            = er.options.noiseReductionLevel
====
